---- MODULE Spec2Model ----
(***************************************************************************)
(* ncspan_grabber.py: bounded-duration capture of a media stream.          *)
(*                                                                         *)
(* main() classifies the URL (platform URLs only), runs                    *)
(* download_with_timeout(), which starts run_downloader() on its own       *)
(* thread and joins it with a timeout, and then renames the artifact and   *)
(* writes the two Internet Archive sidecar files.                          *)
(*                                                                         *)
(* Time is one integer clock, now, advanced by Tick between any two steps  *)
(* of either thread.  An optional Python value is a sequence of length at  *)
(* most one: <<>> is None, <<v>> is v.                                     *)
(***************************************************************************)
EXTENDS Integers, Sequences, FiniteSets, TLC

\* ------------------------------------------------------------------ bounds
MaxTime == 4
MaxDuration == 2
MaxProgress == 2

\* ------------------------------------------------------------ input domains
\* A URL is the sequence of its pieces; Python's `needle in url` is a
\* substring test, here a test on pieces.
Urls ==
    { <<"https://", "www.", "youtube.com", "/live">>,
      <<"https://", "youtu.be", "/abc">>,
      <<"http://", "radio.example", "/stream.mp3">> }

Durations == 0..MaxDuration

\* args.output: None, or a filename template (a filename is the sequence of
\* its pieces).
Outputs == { <<>>, <<"video", ".", "%(ext)s">> }

\* args.prefix, a piece of a filename (the default is the empty string).
Prefixes == { <<"show_">> }

\* An --ia-* option: None, the empty string, or a text.
OptTexts == { <<>>, << <<>> >>, << <<"text">> >> }

\* What ydl.extract_info can answer: it returns a dictionary whose entries
\* may be absent ("None"), or it raises (ok = FALSE, and there is no
\* dictionary).
TriState == { "None", "False", "True" }
Infos ==
    [ ok : {TRUE}, extractor : {"generic", "youtube"},
      is_live : TriState, was_live : TriState,
      release_timestamp : { <<>>, <<0>>, <<1>> } ]
    \cup
    { [ ok |-> FALSE, extractor |-> "None", is_live |-> "None",
        was_live |-> "None", release_timestamp |-> <<>> ] }

\* Python truthiness of info.get(...)
Truthy(v) == v = "True"
TruthyTs(ts) == ts # <<>> /\ ts[1] # 0

\* ------------------------------------------------------------------- state
VARIABLES
    args,           \* [url, duration, output, prefix, ia_title, ia_description,
                    \* ia_creator, ia_license]: the parsed command line
    pc,             \* position of the orchestrating (main) thread
    now,            \* the clock
    info,           \* <<>> or <<the answer of extract_info>>
    stream_type,    \* <<>> or <<"generic">> / <<"structured">>
    exit_code,      \* <<>> while running, <<0>> after exit(0), <<1>> after an uncaught error
    start_time,     \* <<>> or <<t>>
    end_time,       \* <<>> or <<t>>
    stop_flag,      \* threading.Event
    thread,         \* "unstarted", "alive", "dead"
    wpc,            \* position of run_downloader
    outcome,        \* how ydl.download ended
    uncaught,       \* where an exception escaped run_downloader
    progress,       \* number of progress events delivered
    join_from,      \* <<>> or <<t>>: when the timed join began
    log,            \* the records the logger has emitted
    dir,            \* the file names in args.output_dir
    renamed,        \* the moves shutil.move has done, <<old, new>>
    sidecars,       \* the sidecar files written
    calls,          \* [classify, capture, launches, windows]: calls of the
                    \* classifier and of download_with_timeout, threads
                    \* started, and returns of download_with_timeout
    flag_set_at,    \* <<>> or <<t>>: when stop_flag.set() ran
    worker_end_at   \* <<>> or <<t>>: when the worker thread terminated

vars ==
    << args, pc, now, info, stream_type, exit_code, start_time, end_time,
       stop_flag, thread, wpc, outcome, uncaught, progress, join_from, log,
       dir, renamed, sidecars, calls, flag_set_at, worker_end_at >>

\* The logger: a set of records [level, msg].
Logged(level, msg) == log \cup { [level |-> level, msg |-> msg] }

IsPlatformUrl_always(url) == TRUE

\* 'youtube.com' in args.url or 'youtu.be' in args.url
IsPlatformUrl(url) ==
    \/ \E i \in 1..Len(url) : url[i] = "youtube.com"
    \/ \E i \in 1..Len(url) : url[i] = "youtu.be"

Init ==
    /\ args \in [ url : Urls, duration : Durations, output : Outputs,
                  prefix : Prefixes, ia_title : { <<>> },
                  ia_description : { <<>> }, ia_creator : { <<>> },
                  ia_license : { <<>> } ]
    /\ pc = "main"
    /\ now = 0
    /\ info = <<>>
    /\ stream_type = <<>>
    /\ exit_code = <<>>
    /\ start_time = <<>>
    /\ end_time = <<>>
    /\ stop_flag = FALSE
    /\ thread = "unstarted"
    /\ wpc = "idle"
    /\ outcome = "none"
    /\ uncaught = "none"
    /\ progress = 0
    /\ join_from = <<>>
    /\ log = { [level |-> "info", msg |-> "Starting download..."] }
    /\ dir = {}
    /\ renamed = {}
    /\ sidecars = {}
    /\ calls = [classify |-> 0, capture |-> 0, launches |-> 0, windows |-> 0]
    /\ flag_set_at = <<>>
    /\ worker_end_at = <<>>


\* ------------------------------------------------------- StreamClassifier
\* is_stream_live_or_exit: what it returns ("generic", "structured") or
\* that it calls exit(0) ("exit"), with the record it logs first.
is_stream_live_or_exit_falls_through(i) ==
    IF ~i.ok
      THEN [ret |-> "generic", level |-> "warning", msg |-> "Could not extract info"]
    ELSE IF i.extractor = "generic"
      THEN [ret |-> "generic", level |-> "info", msg |-> "Generic stream detected"]
    ELSE IF Truthy(i.is_live) /\ ~Truthy(i.was_live)
      THEN [ret |-> "exit", level |-> "info",
            msg |-> IF TruthyTs(i.release_timestamp)
                      THEN "Stream is scheduled to go live at"
                      ELSE "Stream is scheduled but no start time"]
    ELSE IF Truthy(i.is_live) /\ Truthy(i.was_live)
      THEN [ret |-> "structured", level |-> "info", msg |-> "Stream has already ended"]
    ELSE [ret |-> "structured", level |-> "info", msg |-> "Video is not a live stream"]

is_stream_live_or_exit_live_first(i) ==
    IF ~i.ok
      THEN [ret |-> "generic", level |-> "warning", msg |-> "Could not extract info"]
    ELSE IF Truthy(i.is_live) /\ ~Truthy(i.was_live)
      THEN [ret |-> "exit", level |-> "info",
            msg |-> IF TruthyTs(i.release_timestamp)
                      THEN "Stream is scheduled to go live at"
                      ELSE "Stream is scheduled but no start time"]
    ELSE IF Truthy(i.is_live) /\ Truthy(i.was_live)
      THEN [ret |-> "exit", level |-> "info", msg |-> "Stream has already ended"]
    ELSE IF i.extractor = "generic"
      THEN [ret |-> "generic", level |-> "info", msg |-> "Generic stream detected"]
    ELSE [ret |-> "structured", level |-> "info", msg |-> "Video is not a live stream"]

is_stream_live_or_exit(i) ==
    IF ~i.ok
      THEN [ret |-> "generic", level |-> "warning", msg |-> "Could not extract info"]
    ELSE IF i.extractor = "generic"
      THEN [ret |-> "generic", level |-> "info", msg |-> "Generic stream detected"]
    ELSE IF Truthy(i.is_live) /\ ~Truthy(i.was_live)
      THEN [ret |-> "exit", level |-> "info",
            msg |-> IF TruthyTs(i.release_timestamp)
                      THEN "Stream is scheduled to go live at"
                      ELSE "Stream is scheduled but no start time"]
    ELSE IF Truthy(i.is_live) /\ Truthy(i.was_live)
      THEN [ret |-> "exit", level |-> "info", msg |-> "Stream has already ended"]
    ELSE \* elif not is_live
         [ret |-> "structured", level |-> "info", msg |-> "Video is not a live stream"]

\* ------------------------------------------------------------------- main
\* main, platform URL: is_stream_live_or_exit is entered and extract_info
\* answers (or raises).
ExtractInfo ==
    /\ pc = "main"
    /\ IsPlatformUrl(args.url)
    /\ \E i \in Infos : info' = <<i>>
    /\ calls' = [calls EXCEPT !.classify = @ + 1]
    /\ pc' = "classifying"
    /\ UNCHANGED << args, now, stream_type, exit_code, start_time, end_time,
                    stop_flag, thread, wpc, outcome, uncaught, progress,
                    join_from, log, dir, renamed, sidecars, flag_set_at,
                    worker_end_at >>

\* The rest of is_stream_live_or_exit: exit(0) ends the process inside it;
\* otherwise it returns to main and its local info is gone.
Classify ==
    /\ pc = "classifying"
    /\ LET r == is_stream_live_or_exit(info[1]) IN
         /\ log' = Logged(r.level, r.msg)
         /\ IF r.ret = "exit"
              THEN /\ pc' = "exited"
                   /\ exit_code' = <<0>>
                   /\ UNCHANGED << stream_type, info >>
              ELSE /\ pc' = "capture"
                   /\ stream_type' = <<r.ret>>
                   /\ info' = <<>>
                   /\ UNCHANGED exit_code
    /\ UNCHANGED << args, now, start_time, end_time, stop_flag, thread, wpc,
                    outcome, uncaught, progress, join_from, dir, renamed,
                    sidecars, calls, flag_set_at, worker_end_at >>

\* main, any other URL: no classification.
SkipClassify ==
    /\ pc = "main"
    /\ ~IsPlatformUrl(args.url)
    /\ log' = Logged("info", "Non-YouTube URL detected")
    /\ stream_type' = <<"generic">>
    /\ pc' = "capture"
    /\ UNCHANGED << args, now, info, exit_code, start_time, end_time,
                    stop_flag, thread, wpc, outcome, uncaught, progress,
                    join_from, dir, renamed, sidecars, calls, flag_set_at,
                    worker_end_at >>

\* ---------------------------------------------------------- BoundedCapture
\* The template the worker downloads to.
Destination_temp == <<"temp", ".", "%(ext)s">>

Destination ==
    IF args.output = <<>> THEN <<"temp", ".", "%(ext)s">> ELSE args.output

\* download_with_timeout is entered: start_time, the flag, the options.
BeginCapture ==
    /\ pc = "capture"
    /\ start_time' = <<now>>
    /\ stop_flag' = FALSE
    /\ calls' = [calls EXCEPT !.capture = @ + 1]
    /\ pc' = "launch"
    /\ UNCHANGED << args, now, info, stream_type, exit_code, end_time, thread,
                    wpc, outcome, uncaught, progress, join_from, log, dir,
                    renamed, sidecars, flag_set_at, worker_end_at >>

\* thread.start() succeeds; the timed join begins.
LaunchWorker ==
    /\ pc = "launch"
    /\ thread' = "alive"
    /\ wpc' = "setup"
    /\ join_from' = <<now>>
    /\ calls' = [calls EXCEPT !.launches = @ + 1]
    /\ pc' = "join1"
    /\ UNCHANGED << args, now, info, stream_type, exit_code, start_time,
                    end_time, stop_flag, outcome, uncaught, progress, log, dir,
                    renamed, sidecars, flag_set_at, worker_end_at >>

\* thread.start() raises (no thread can be started): nothing catches it.
LaunchFails_swallowed ==
    /\ pc = "launch"
    /\ pc' = "record_end"
    /\ UNCHANGED << args, now, info, stream_type, exit_code, start_time,
                    end_time, stop_flag, thread, wpc, outcome, uncaught,
                    progress, join_from, log, dir, renamed, sidecars, calls,
                    flag_set_at, worker_end_at >>

LaunchFails ==
    /\ pc = "launch"
    /\ pc' = "crashed"
    /\ exit_code' = <<1>>
    /\ UNCHANGED << args, now, info, stream_type, start_time, end_time,
                    stop_flag, thread, wpc, outcome, uncaught, progress,
                    join_from, log, dir, renamed, sidecars, calls,
                    flag_set_at, worker_end_at >>

\* thread.join(timeout=duration) has waited its timeout out.
JoinTimedOut_early == TRUE

JoinTimedOut == now >= join_from[1] + args.duration

\* thread.join(timeout=duration) returns: the worker ended, or the timeout.
TimedJoin ==
    /\ pc = "join1"
    /\ thread = "dead" \/ JoinTimedOut
    /\ pc' = "check_alive"
    /\ UNCHANGED << args, now, info, stream_type, exit_code, start_time,
                    end_time, stop_flag, thread, wpc, outcome, uncaught,
                    progress, join_from, log, dir, renamed, sidecars, calls,
                    flag_set_at, worker_end_at >>

is_alive_always == TRUE

is_alive == thread = "alive"

\* if thread.is_alive():
CheckAlive ==
    /\ pc = "check_alive"
    /\ pc' = IF is_alive THEN "stopping" ELSE "record_end"
    /\ UNCHANGED << args, now, info, stream_type, exit_code, start_time,
                    end_time, stop_flag, thread, wpc, outcome, uncaught,
                    progress, join_from, log, dir, renamed, sidecars, calls,
                    flag_set_at, worker_end_at >>

\* threading.Event.set(): the flag is true afterwards, whatever it was.
Event_set_toggle(flag) == ~flag

Event_set(flag) == TRUE

\* logger.info("Stopping download ..."); stop_flag.set()
SetStopFlag ==
    /\ pc = "stopping"
    /\ log' = Logged("info", "Stopping download")
    /\ stop_flag' = Event_set(stop_flag)
    /\ flag_set_at' = <<now>>
    /\ pc' = "join2"
    /\ UNCHANGED << args, now, info, stream_type, exit_code, start_time,
                    end_time, thread, wpc, outcome, uncaught, progress,
                    join_from, dir, renamed, sidecars, calls, worker_end_at >>

\* thread.join() returns.
JoinReturns_timeout == TRUE

JoinReturns == thread = "dead"

UntimedJoin ==
    /\ pc = "join2"
    /\ JoinReturns
    /\ pc' = "record_end"
    /\ UNCHANGED << args, now, info, stream_type, exit_code, start_time,
                    end_time, stop_flag, thread, wpc, outcome, uncaught,
                    progress, join_from, log, dir, renamed, sidecars, calls,
                    flag_set_at, worker_end_at >>

\* end_time = datetime.now(UTC)
EndStamp_start == start_time[1]

EndStamp == now

\* end_time is taken, logged, and download_with_timeout returns.
RecordEnd_retry ==
    /\ pc = "record_end"
    /\ end_time' = <<EndStamp>>
    /\ log' = Logged("info", "Download complete")
    /\ calls' = [calls EXCEPT !.windows = @ + 1]
    /\ pc' = IF outcome \in {"fault", "cancelled"} /\ calls.capture < 2
               THEN "capture" ELSE "finalize"
    /\ UNCHANGED << args, now, info, stream_type, exit_code, start_time,
                    stop_flag, thread, wpc, outcome, uncaught, progress,
                    join_from, dir, renamed, sidecars, flag_set_at,
                    worker_end_at >>

RecordEnd ==
    /\ pc = "record_end"
    /\ end_time' = <<EndStamp>>
    /\ log' = Logged("info", "Download complete")
    /\ calls' = [calls EXCEPT !.windows = @ + 1]
    /\ pc' = "finalize"
    /\ UNCHANGED << args, now, info, stream_type, exit_code, start_time,
                    stop_flag, thread, wpc, outcome, uncaught, progress,
                    join_from, dir, renamed, sidecars, flag_set_at,
                    worker_end_at >>

\* ------------------------------------------------------------ the worker
\* The extension the fetcher gives the artifact.
Exts == { "mp4" }

\* The fetcher writes <destination with %(ext)s filled in>.part while it
\* downloads and renames it to the name without .part when it completes.
Replace(name, old, new) ==
    [ k \in 1..Len(name) |-> IF name[k] = old THEN new ELSE name[k] ]

ArtifactName(ext) == Replace(Destination, "%(ext)s", ext)

PartialName(ext) == ArtifactName(ext) \o <<".", "part">>

\* with YoutubeDL(ydl_opts) as ydl: the fetcher is constructed.
WorkerSetup ==
    /\ thread = "alive"
    /\ wpc = "setup"
    /\ wpc' = "download"
    /\ UNCHANGED << args, pc, now, info, stream_type, exit_code, start_time,
                    end_time, stop_flag, thread, outcome, uncaught, progress,
                    join_from, log, dir, renamed, sidecars, calls,
                    flag_set_at, worker_end_at >>

\* YoutubeDL(ydl_opts) raises: the with statement is outside the try, the
\* exception leaves run_downloader and ends the thread.
WorkerSetupFails ==
    /\ thread = "alive"
    /\ wpc = "setup"
    /\ uncaught' = "setup"
    /\ wpc' = "done"
    /\ thread' = "dead"
    /\ worker_end_at' = <<now>>
    /\ UNCHANGED << args, pc, now, info, stream_type, exit_code, start_time,
                    end_time, stop_flag, outcome, progress, join_from, log,
                    dir, renamed, sidecars, calls, flag_set_at >>

\* The progress hook: stop_flag.is_set() and <throw Exception("Timeout reached")>
HookRaises_never == FALSE

HookRaises_always == TRUE

HookRaises == stop_flag

\* ydl.download calls the progress hook and the hook returns.
ProgressEvent ==
    /\ thread = "alive"
    /\ wpc = "download"
    /\ ~HookRaises
    /\ progress < MaxProgress
    /\ progress' = progress + 1
    /\ \E ext \in Exts : dir' = dir \cup { PartialName(ext) }
    /\ UNCHANGED << args, pc, now, info, stream_type, exit_code, start_time,
                    end_time, stop_flag, thread, wpc, outcome, uncaught,
                    join_from, log, renamed, sidecars, calls, flag_set_at,
                    worker_end_at >>

\* ydl.download calls the progress hook and the hook raises; the except
\* clause of run_downloader catches it and logs a warning.
ProgressCancels ==
    /\ thread = "alive"
    /\ wpc = "download"
    /\ HookRaises
    /\ outcome' = "cancelled"
    /\ log' = Logged("warning", "Download interrupted")
    /\ wpc' = "teardown"
    /\ UNCHANGED << args, pc, now, info, stream_type, exit_code, start_time,
                    end_time, stop_flag, thread, uncaught, progress, join_from,
                    dir, renamed, sidecars, calls, flag_set_at, worker_end_at >>

\* ydl.download returns: the artifact is complete.
DownloadCompletes ==
    /\ thread = "alive"
    /\ wpc = "download"
    /\ outcome' = "completed"
    /\ \E ext \in Exts :
         dir' = (dir \ { PartialName(ext) }) \cup { ArtifactName(ext) }
    /\ wpc' = "teardown"
    /\ UNCHANGED << args, pc, now, info, stream_type, exit_code, start_time,
                    end_time, stop_flag, thread, uncaught, progress, join_from,
                    log, renamed, sidecars, calls, flag_set_at, worker_end_at >>

\* ydl.download raises (network, fetcher-internal); the except clause
\* catches it and logs a warning.
DownloadFails ==
    /\ thread = "alive"
    /\ wpc = "download"
    /\ outcome' = "fault"
    /\ log' = Logged("warning", "Download interrupted")
    /\ wpc' = "teardown"
    /\ UNCHANGED << args, pc, now, info, stream_type, exit_code, start_time,
                    end_time, stop_flag, thread, uncaught, progress, join_from,
                    dir, renamed, sidecars, calls, flag_set_at, worker_end_at >>

\* The with statement is left (YoutubeDL.__exit__) and the thread ends.
WorkerTeardown ==
    /\ thread = "alive"
    /\ wpc = "teardown"
    /\ wpc' = "done"
    /\ thread' = "dead"
    /\ worker_end_at' = <<now>>
    /\ UNCHANGED << args, pc, now, info, stream_type, exit_code, start_time,
                    end_time, stop_flag, outcome, uncaught, progress,
                    join_from, log, dir, renamed, sidecars, calls,
                    flag_set_at >>

\* YoutubeDL.__exit__ raises: outside the try, the exception ends the thread.
WorkerTeardownFails ==
    /\ thread = "alive"
    /\ wpc = "teardown"
    /\ uncaught' = "teardown"
    /\ wpc' = "done"
    /\ thread' = "dead"
    /\ worker_end_at' = <<now>>
    /\ UNCHANGED << args, pc, now, info, stream_type, exit_code, start_time,
                    end_time, stop_flag, outcome, progress, join_from, log,
                    dir, renamed, sidecars, calls, flag_set_at >>

\* --------------------------------------------------------- OutputFinalizer
\* strftime("%Y%m%dT%H%M%S") of the clock, which counts seconds from
\* 2024-01-01T00:00:00Z (and stays within that day).
Pad2(n) == IF n < 10 THEN "0" \o ToString(n) ELSE ToString(n)

strftime(t) ==
    "20240101T" \o Pad2((t \div 3600) % 24) \o Pad2((t \div 60) % 60)
                \o Pad2(t % 60)

generate_timestamped_output_template(start, end, prefix) ==
    prefix \o << "live_", strftime(start), "_to_", strftime(end), ".", "%(ext)s" >>

\* str.startswith("temp.") and str.endswith(".part") on a file name
StartsWithTemp(name) == Len(name) >= 2 /\ name[1] = "temp" /\ name[2] = "."

EndsWithPart_never(name) == FALSE

EndsWithPart(name) ==
    Len(name) >= 2 /\ name[Len(name) - 1] = "." /\ name[Len(name)] = "part"

\* os.path.splitext: the last dot that is not the leading one splits the name.
Dots(name) == { k \in 2..Len(name) : name[k] = "." }

LastDot(name) == CHOOSE k \in Dots(name) : \A j \in Dots(name) : j <= k

SplitRoot(name) ==
    IF Dots(name) = {} THEN name ELSE SubSeq(name, 1, LastDot(name) - 1)

\* splitext(name)[1].lstrip("."), as one piece ("" when there is none)
SplitExt(name) ==
    IF Dots(name) = {} \/ LastDot(name) = Len(name) THEN ""
    ELSE name[Len(name)]

FilesXml(identifier) == identifier \o <<"_files.xml">>

MetaXml(identifier) == identifier \o <<"_meta.xml">>

\* Python's `value or default` on an option: None and "" give the default.
OrElse_none_only(opt, default) ==
    IF opt = <<>> THEN default ELSE opt[1]

OrElse(opt, default) ==
    IF opt = <<>> \/ opt[1] = <<>> THEN default ELSE opt[1]

\* write_internet_archive_metadata_files: the two documents it writes, each
\* with the elements it holds.
write_internet_archive_metadata_files(identifier, filename, title, description, creator, license_url) ==
    { [ path |-> FilesXml(identifier), doc |-> "files",
        fields |-> [ name |-> filename ] ],
      [ path |-> MetaXml(identifier), doc |-> "metadata",
        fields |-> [ title |-> OrElse(title, identifier),
                     identifier |-> identifier,
                     description |-> OrElse(description, <<>>),
                     creator |-> OrElse(creator, <<>>),
                     licenseurl |-> OrElse(license_url, <<>>),
                     mediatype |-> <<"movies">> ] ] }

\* The directory entries the rename loop picks.
Picked == { f \in dir : StartsWithTemp(f) /\ ~EndsWithPart(f) }

FinalName(f) ==
    Replace(generate_timestamped_output_template(start_time[1], end_time[1],
                                                 args.prefix),
            "%(ext)s", SplitExt(f))

\* main without -o: every picked entry is moved and given its sidecars.
FinalizeTemp ==
    /\ pc = "finalize"
    /\ args.output = <<>>
    /\ renamed' = renamed \cup { <<f, FinalName(f)>> : f \in Picked }
    /\ sidecars' = sidecars \cup
         UNION { write_internet_archive_metadata_files(
                     SplitRoot(FinalName(f)), FinalName(f), args.ia_title,
                     args.ia_description, args.ia_creator, args.ia_license)
                 : f \in Picked }
    /\ dir' = (dir \ Picked)
                \cup { FinalName(f) : f \in Picked }
                \cup UNION { { FilesXml(SplitRoot(FinalName(f))),
                               MetaXml(SplitRoot(FinalName(f))) } : f \in Picked }
    /\ log' = IF Picked = {} THEN log ELSE Logged("info", "Renamed")
    /\ pc' = "done"
    /\ UNCHANGED << args, now, info, stream_type, exit_code, start_time,
                    end_time, stop_flag, thread, wpc, outcome, uncaught,
                    progress, join_from, calls, flag_set_at, worker_end_at >>

\* main with -o: nothing is moved, the sidecars are named after the template.
FinalizeExplicit ==
    /\ pc = "finalize"
    /\ args.output # <<>>
    /\ sidecars' = sidecars \cup
         write_internet_archive_metadata_files(
             SplitRoot(args.output), args.output, args.ia_title,
             args.ia_description, args.ia_creator, args.ia_license)
    /\ dir' = dir \cup { FilesXml(SplitRoot(args.output)),
                         MetaXml(SplitRoot(args.output)) }
    /\ pc' = "done"
    /\ UNCHANGED << args, now, info, stream_type, exit_code, start_time,
                    end_time, stop_flag, thread, wpc, outcome, uncaught,
                    progress, join_from, log, renamed, calls, flag_set_at,
                    worker_end_at >>

\* ------------------------------------------------------------------- time
Tick ==
    /\ now < MaxTime
    /\ now' = now + 1
    /\ UNCHANGED << args, pc, info, stream_type, exit_code, start_time,
                    end_time, stop_flag, thread, wpc, outcome, uncaught,
                    progress, join_from, log, dir, renamed, sidecars, calls,
                    flag_set_at, worker_end_at >>

Next ==
    \/ Tick
    \/ ExtractInfo
    \/ Classify
    \/ SkipClassify
    \/ BeginCapture
    \/ LaunchWorker
    \/ LaunchFails
    \/ TimedJoin
    \/ CheckAlive
    \/ SetStopFlag
    \/ UntimedJoin
    \/ RecordEnd
    \/ WorkerSetup
    \/ WorkerSetupFails
    \/ ProgressEvent
    \/ ProgressCancels
    \/ DownloadCompletes
    \/ DownloadFails
    \/ WorkerTeardown
    \/ WorkerTeardownFails
    \/ FinalizeTemp
    \/ FinalizeExplicit

Spec == Init /\ [][Next]_vars

\* ----------------------------------------------- finalization on its own
\* main at line 198 / 222, download_with_timeout having returned: the
\* capture window, the options and the directory are drawn from wider sets
\* than the capture reaches within MaxTime.
FinalizeTimes == { 0, 59, 60, 300, 86399 }

FinalizePrefixes == { <<>>, <<"show_">>, <<"%(ext)s", "_">> }

FinalizeDirs ==
    { {},
      { <<"temp", ".", "mp4">> },
      { <<"temp", ".", "mp4", ".", "part">> },
      { <<"temp", ".", "webm">>, <<"temp", ".", "mp4", ".", "part">> } }

FinalizeInit ==
    /\ args \in [ url : { <<"http://", "radio.example", "/stream.mp3">> },
                  duration : { 0 }, output : Outputs,
                  prefix : FinalizePrefixes, ia_title : OptTexts,
                  ia_description : OptTexts, ia_creator : OptTexts,
                  ia_license : OptTexts ]
    /\ \E s \in FinalizeTimes, e \in FinalizeTimes :
         /\ s <= e
         /\ start_time = <<s>>
         /\ join_from = <<s>>
         /\ end_time = <<e>>
         /\ worker_end_at = <<e>>
         /\ now = e
    /\ dir \in FinalizeDirs
    /\ outcome = IF \E f \in dir : ~EndsWithPart(f) THEN "completed" ELSE "fault"
    /\ log = { [level |-> "info", msg |-> "Starting download..."],
               [level |-> "info", msg |-> "Non-YouTube URL detected"],
               [level |-> "info", msg |-> "Download complete"] }
             \cup (IF outcome = "fault"
                     THEN { [level |-> "warning", msg |-> "Download interrupted"] }
                     ELSE {})
    /\ pc = "finalize"
    /\ info = <<>>
    /\ stream_type = <<"generic">>
    /\ exit_code = <<>>
    /\ stop_flag = FALSE
    /\ thread = "dead"
    /\ wpc = "done"
    /\ uncaught = "none"
    /\ progress = 0
    /\ renamed = {}
    /\ sidecars = {}
    /\ calls = [classify |-> 0, capture |-> 1, launches |-> 1, windows |-> 1]
    /\ flag_set_at = <<>>

FinalizeNext ==
    \/ FinalizeTemp
    \/ FinalizeExplicit

FinalizeSpec == FinalizeInit /\ [][FinalizeNext]_vars

\* ------------------------------------------------- the capture on its own
\* main at line 192 / 217 for a URL that is not classified: everything up
\* to the return of download_with_timeout, under the scheduling the
\* interpreter and the fetcher give. The clock advances; a thread that can
\* take its next step takes it; the fetcher, while it downloads, calls the
\* progress hook again. Nothing makes ydl.download return or raise.
CaptureInit ==
    /\ args \in [ url : { <<"http://", "radio.example", "/stream.mp3">> },
                  duration : Durations, output : Outputs,
                  prefix : Prefixes, ia_title : { <<>> },
                  ia_description : { <<>> }, ia_creator : { <<>> },
                  ia_license : { <<>> } ]
    /\ pc = "capture"
    /\ now = 0
    /\ info = <<>>
    /\ stream_type = <<"generic">>
    /\ exit_code = <<>>
    /\ start_time = <<>>
    /\ end_time = <<>>
    /\ stop_flag = FALSE
    /\ thread = "unstarted"
    /\ wpc = "idle"
    /\ outcome = "none"
    /\ uncaught = "none"
    /\ progress = 0
    /\ join_from = <<>>
    /\ log = { [level |-> "info", msg |-> "Starting download..."],
               [level |-> "info", msg |-> "Non-YouTube URL detected"] }
    /\ dir = {}
    /\ renamed = {}
    /\ sidecars = {}
    /\ calls = [classify |-> 0, capture |-> 0, launches |-> 0, windows |-> 0]
    /\ flag_set_at = <<>>
    /\ worker_end_at = <<>>

CaptureNext ==
    \/ Tick
    \/ BeginCapture
    \/ LaunchWorker
    \/ LaunchFails
    \/ TimedJoin
    \/ CheckAlive
    \/ SetStopFlag
    \/ UntimedJoin
    \/ RecordEnd
    \/ WorkerSetup
    \/ WorkerSetupFails
    \/ ProgressEvent
    \/ ProgressCancels
    \/ DownloadCompletes
    \/ DownloadFails
    \/ WorkerTeardown
    \/ WorkerTeardownFails

FairSpec ==
    /\ CaptureInit
    /\ [][CaptureNext]_vars
    /\ WF_vars(Tick)
    /\ WF_vars(BeginCapture)
    /\ WF_vars(LaunchWorker \/ LaunchFails)
    /\ WF_vars(TimedJoin)
    /\ WF_vars(CheckAlive)
    /\ WF_vars(SetStopFlag)
    /\ WF_vars(UntimedJoin)
    /\ WF_vars(RecordEnd)
    /\ WF_vars(WorkerSetup \/ WorkerSetupFails)
    /\ WF_vars(ProgressEvent \/ ProgressCancels)
    /\ WF_vars(WorkerTeardown \/ WorkerTeardownFails)

\* ------------------------------------------------------------------ claims
Returned == pc \in {"finalize", "done"}

Deadline == start_time[1] + args.duration

\* The worker thread ran to its end with no exception anywhere.
NaturalCompletion ==
    thread = "dead" /\ outcome = "completed" /\ uncaught = "none"

InterruptedWarning == [level |-> "warning", msg |-> "Download interrupted"]

\* C1: on the timeout path (the flag is set, or the worker ended by the
\* cancellation fault) the flag is set no earlier than max_duration after
\* start, and the recorded end is at least start + max_duration.
C1_TimeoutPath ==
    /\ stop_flag => flag_set_at[1] >= Deadline
    /\ (end_time # <<>> /\ (stop_flag \/ outcome = "cancelled"))
          => end_time[1] >= Deadline

C1_Witness ==
    /\ Returned
    /\ outcome = "cancelled"
    /\ args.duration > 0
    /\ flag_set_at[1] > Deadline
    /\ end_time[1] > flag_set_at[1]

\* C2 as stated: when the worker completes naturally before max_duration
\* has elapsed, the flag is never set and end equals the completion time.
C2_EndEqualsCompletion ==
    (Returned /\ NaturalCompletion /\ worker_end_at[1] < Deadline)
        => (~stop_flag /\ end_time[1] = worker_end_at[1])

\* C2, amended: when the worker completes naturally before max_duration has
\* elapsed, the flag is never set, and end is the clock the orchestrator
\* reads after it has seen the worker ended: no earlier than the completion
\* time (and free to be earlier than start + max_duration).
C2_NaturalCompletion ==
    (NaturalCompletion /\ worker_end_at[1] < Deadline)
        => /\ ~stop_flag
           /\ flag_set_at = <<>>
           /\ pc \notin {"stopping", "join2"}
           /\ end_time # <<>> => end_time[1] >= worker_end_at[1]

C2_Witness ==
    /\ Returned
    /\ NaturalCompletion
    /\ ~stop_flag
    /\ worker_end_at[1] < end_time[1]
    /\ end_time[1] < Deadline

\* C3: every fault raised inside the worker, also one raised while the
\* fetcher is set up or torn down, is caught in the worker and logged as a
\* warning, does not reach the orchestrator, and the window is returned.
C3_FaultContained ==
    /\ (outcome \in {"fault", "cancelled"} \/ uncaught # "none")
          => (uncaught = "none" /\ InterruptedWarning \in log /\ pc # "crashed")
    /\ (pc = "done" /\ thread = "dead") => (start_time # <<>> /\ end_time # <<>>)

\* C4: start is recorded before the worker begins, and end only after the
\* worker thread has terminated and been joined, on either path.
C4_WindowOrdering ==
    /\ thread # "unstarted" => start_time # <<>>
    /\ pc = "record_end" => thread = "dead"
    /\ end_time # <<>>
          => /\ thread = "dead"
             /\ start_time[1] <= worker_end_at[1]
             /\ worker_end_at[1] <= end_time[1]

C4_Witness ==
    /\ Returned
    /\ stop_flag
    /\ outcome = "cancelled"
    /\ thread = "dead"

\* C5: from the second join the orchestrator moves on only when the worker
\* has terminated: while the worker stays alive it stays in the join and
\* end is not recorded, however much time passes.
C5_UnboundedWait ==
    [][ (pc = "join2" /\ thread' = "alive")
            => (pc' = "join2" /\ end_time' = <<>>) ]_vars

C5_Witness ==
    /\ pc = "join2"
    /\ thread = "alive"
    /\ stop_flag
    /\ now >= flag_set_at[1] + 2
    /\ end_time = <<>>

\* C6: the classification table.  Extraction raises: Generic, proceed.
\* Generic extractor: Generic, proceed, whatever the live flags.  Not live:
\* proceed.  Live and not previously live: Deferred, exit 0.  Live and
\* previously live: Ended, exit 0.
C6_Proceeds(type) ==
    pc' = "capture" /\ stream_type' = <<type>> /\ exit_code' = <<>>

C6_Exits(msgs) ==
    /\ pc' = "exited"
    /\ exit_code' = <<0>>
    /\ \E m \in msgs : [level |-> "info", msg |-> m] \in log'

C6_ClassificationTable ==
    [][ (pc = "classifying" /\ pc' # "classifying") =>
          LET i == info[1] IN
            /\ ~i.ok => C6_Proceeds("generic")
            /\ (i.ok /\ i.extractor = "generic") => C6_Proceeds("generic")
            /\ (i.ok /\ i.extractor # "generic" /\ i.is_live # "True")
                  => C6_Proceeds("structured")
            /\ (i.ok /\ i.extractor # "generic" /\ i.is_live = "True"
                     /\ i.was_live # "True")
                  => C6_Exits({"Stream is scheduled to go live at",
                               "Stream is scheduled but no start time"})
            /\ (i.ok /\ i.extractor # "generic" /\ i.is_live = "True"
                     /\ i.was_live = "True")
                  => C6_Exits({"Stream has already ended"}) ]_vars

C6_Witness ==
    /\ pc = "exited"
    /\ info[1].ok
    /\ info[1].is_live = "True"
    /\ info[1].was_live = "True"
    /\ [level |-> "info", msg |-> "Stream has already ended"] \in log

\* C7: once the classifier has said Deferred or Ended the process has
\* exited with status 0, and an exited process has launched no worker,
\* recorded no window, renamed nothing and written no sidecar.
C7_SaidDeferredOrEnded ==
    \E r \in log : r.msg \in {"Stream is scheduled to go live at",
                             "Stream is scheduled but no start time",
                             "Stream has already ended"}

C7_Gating ==
    /\ C7_SaidDeferredOrEnded => pc = "exited"
    /\ pc = "exited"
          => /\ exit_code = <<0>>
             /\ calls.capture = 0
             /\ thread = "unstarted"
             /\ start_time = <<>> /\ end_time = <<>>
             /\ renamed = {} /\ sidecars = {}

C7_Witness ==
    /\ pc = "exited"
    /\ now > 0
    /\ info[1].is_live = "True"
    /\ info[1].was_live # "True"

\* C8: some answer of the extractor with a non-generic extractor and
\* is_live true makes is_stream_live_or_exit return instead of exiting.
C8_LiveStreamProceeds ==
    pc = "classifying" =>
        \E i \in Infos :
            /\ i.ok /\ i.extractor # "generic" /\ i.is_live = "True"
            /\ is_stream_live_or_exit(i).ret # "exit"

\* C9: a URL holding neither youtube.com nor youtu.be is never classified
\* and cannot exit early: main goes straight on to its one call of
\* download_with_timeout.  The classifier runs at most once, for a platform
\* URL only, and before the capture.
C9_Unrecognised ==
    \A k \in DOMAIN args.url : args.url[k] \notin {"youtube.com", "youtu.be"}

C9_Bypass ==
    /\ calls.classify <= 1 /\ calls.capture <= 1
    /\ calls.classify = 1 => ~C9_Unrecognised
    /\ (calls.capture = 1 /\ ~C9_Unrecognised) => calls.classify = 1
    /\ C9_Unrecognised
          => /\ info = <<>>
             /\ pc \notin {"classifying", "exited"}
             /\ pc = "main" => ENABLED SkipClassify
             /\ pc = "capture" => ENABLED BeginCapture
             /\ pc \notin {"main", "capture"} => calls.capture = 1

C9_Witness ==
    /\ C9_Unrecognised
    /\ thread = "alive"
    /\ calls.capture = 1
    /\ calls.classify = 0

\* C10: a capture that returns produces its window once, with end >= start,
\* and end is read after the worker terminated, whether the download
\* completed, faulted or was cancelled.
C10_CaptureWindow ==
    /\ calls.windows <= calls.capture
    /\ Returned = (calls.windows = 1)
    /\ Returned
          => /\ end_time[1] >= start_time[1]
             /\ end_time[1] <= now
             /\ thread = "dead"
             /\ end_time[1] >= worker_end_at[1]
             /\ \/ outcome \in {"completed", "fault", "cancelled"}
                \/ uncaught = "setup"

C10_Witness ==
    /\ Returned
    /\ outcome = "fault"
    /\ ~stop_flag
    /\ end_time[1] > start_time[1]

\* C11: one invocation makes at most one call of download_with_timeout and
\* starts at most one worker thread, on the -o branch and on the temporary
\* branch alike; a fault or a timeout starts no second one.  So never more
\* than two execution contexts are active.
C11_ActiveContexts ==
    (IF pc \in {"done", "exited", "crashed"} THEN 0 ELSE 1)
      + (IF thread = "alive" THEN 1 ELSE 0)

C11_SingleWorker ==
    /\ calls.capture <= 1
    /\ calls.launches <= calls.capture
    /\ C11_ActiveContexts <= 2
    /\ thread = "alive" => calls.launches = 1
    /\ Returned => (calls.capture = 1 /\ calls.launches = 1)
    /\ wpc # "idle" => calls.launches = 1

C11_Witness ==
    /\ pc = "done"
    /\ args.output # <<>>
    /\ stop_flag
    /\ outcome = "cancelled"
    /\ calls.launches = 1

\* C12: the flag starts clear, only the orchestrator's stop_flag.set()
\* changes it, no step of the worker changes it, it is never cleared once
\* set, and a second set() would leave it, and what the hook then sees, as
\* the first did.
C12_FlagDiscipline ==
    /\ [](thread = "unstarted" => ~stop_flag)
    /\ [][stop_flag => stop_flag']_vars
    /\ [][stop_flag' # stop_flag
            => (pc = "stopping" /\ pc' = "join2" /\ wpc' = wpc
                  /\ thread' = thread)]_vars
    /\ [](Event_set(Event_set(stop_flag)) = Event_set(stop_flag))
    /\ [](stop_flag => (Event_set(stop_flag) = stop_flag /\ HookRaises))

C12_Witness ==
    /\ stop_flag
    /\ thread = "alive"
    /\ wpc = "download"
    /\ progress > 0

\* C13: when thread.start() fails the error leaves download_with_timeout
\* and main: the process ends with a failure status and stays ended, no
\* window is returned, the flag is never set, nothing is renamed and no
\* sidecar is written.
C13_LaunchFailure ==
    /\ [](pc = "crashed"
            => /\ exit_code = <<1>>
               /\ thread = "unstarted" /\ calls.launches = 0
               /\ end_time = <<>> /\ calls.windows = 0
               /\ ~stop_flag /\ flag_set_at = <<>>
               /\ renamed = {} /\ sidecars = {})
    /\ [][pc = "crashed" => pc' = "crashed"]_vars
    /\ [][(pc = "launch" /\ pc' # "launch" /\ thread' = "unstarted")
            => pc' = "crashed"]_vars

C13_Witness ==
    /\ pc = "crashed"
    /\ calls.capture = 1
    /\ now > start_time[1]

\* C14: whenever download_with_timeout has returned and main has finished,
\* both sidecar documents (the file manifest and the metadata) have been
\* written, with -o and without, also when the worker faulted or was
\* cancelled and left no complete artifact.  (Runs in which an exception
\* escaped the worker are left out: they are C3's.)
C14_SidecarsAlwaysWritten ==
    (pc = "done" /\ uncaught = "none")
        => /\ \E d \in sidecars : d.doc = "files"
           /\ \E d \in sidecars : d.doc = "metadata"

\* C15: with -o the worker downloads to that template, finalization moves
\* no file, every name in the directory and in the sidecars comes from the
\* template as given, and none holds a timestamp of the capture window.
C15_Stamps == { strftime(t) : t \in 0..MaxTime }

C15_FromTemplate ==
    { Replace(args.output, "%(ext)s", e) : e \in Exts }
      \cup { Replace(args.output, "%(ext)s", e) \o <<".", "part">> : e \in Exts }
      \cup { SplitRoot(args.output) \o <<"_files.xml">>,
             SplitRoot(args.output) \o <<"_meta.xml">> }

C15_ExplicitOutput ==
    args.output # <<>>
        => /\ renamed = {}
           /\ dir \subseteq C15_FromTemplate
           /\ \A f \in dir : \A k \in DOMAIN f : f[k] \notin C15_Stamps
           /\ \A d \in sidecars :
                /\ d.path \in C15_FromTemplate
                /\ d.doc = "files" => d.fields.name = args.output
                /\ d.doc = "metadata"
                      => d.fields.identifier = SplitRoot(args.output)

C15_Witness ==
    /\ pc = "done"
    /\ args.output # <<>>
    /\ outcome = "completed"
    /\ end_time[1] > start_time[1]
    /\ Cardinality(sidecars) = 2
    /\ Cardinality(dir) = 3

\* C16: the name given to a renamed artifact is prefix + "live_" + start as
\* YYYYMMDDTHHMMSS + "_to_" + end as YYYYMMDDTHHMMSS + "." + the extension
\* of the downloaded file, for every start, end, prefix and extension; so
\* start 2024-01-01T00:00:00Z, end 00:05:00Z, prefix "show_", ext "mp4"
\* give show_live_20240101T000000_to_20240101T000500.mp4.
C16_Expected(f) ==
    args.prefix \o << "live_", strftime(start_time[1]), "_to_",
                      strftime(end_time[1]), ".", f[Len(f)] >>

C16_FinalNameFormat ==
    \A m \in renamed :
        /\ m[2] = C16_Expected(m[1])
        /\ (start_time = <<0>> /\ end_time = <<300>>
              /\ args.prefix = <<"show_">> /\ m[1] = <<"temp", ".", "mp4">>)
             => m[2] = << "show_", "live_", "20240101T000000", "_to_",
                          "20240101T000500", ".", "mp4" >>

\* The same for a prefix that does not hold the text %(ext)s (what the code
\* does do).
C16_PlainPrefix ==
    (\A k \in DOMAIN args.prefix : args.prefix[k] # "%(ext)s")
        => C16_FinalNameFormat

C16_ExampleReached ==
    /\ pc = "done"
    /\ << <<"temp", ".", "mp4">>,
          << "show_", "live_", "20240101T000000", "_to_", "20240101T000500",
             ".", "mp4" >> >> \in renamed

\* C17: the metadata document holds the given title, or the identifier
\* when the title is missing or empty; description, creator and license are
\* always there, empty when not given; the media type is "movies"; the
\* manifest names the one file it was written for.
C17_Given(opt, default) ==
    IF opt = << <<"text">> >> THEN <<"text">> ELSE default

C17_MetadataDefaults ==
    \A d \in sidecars :
        /\ d.doc = "metadata" =>
             /\ DOMAIN d.fields = { "title", "identifier", "description",
                                    "creator", "licenseurl", "mediatype" }
             /\ d.path = d.fields.identifier \o <<"_meta.xml">>
             /\ d.fields.title = C17_Given(args.ia_title, d.fields.identifier)
             /\ d.fields.description = C17_Given(args.ia_description, <<>>)
             /\ d.fields.creator = C17_Given(args.ia_creator, <<>>)
             /\ d.fields.licenseurl = C17_Given(args.ia_license, <<>>)
             /\ d.fields.mediatype = <<"movies">>
        /\ d.doc = "files" =>
             /\ DOMAIN d.fields = { "name" }
             /\ d.fields.name \in { m[2] : m \in renamed } \cup { args.output }
             /\ d.path = SplitRoot(d.fields.name) \o <<"_files.xml">>

C17_Witness ==
    /\ pc = "done"
    /\ args.ia_title = << <<>> >>
    /\ args.ia_description = <<>>
    /\ args.ia_creator = << <<"text">> >>
    /\ \E d \in sidecars :
         /\ d.doc = "metadata"
         /\ d.fields.title = d.fields.identifier
         /\ d.fields.description = <<>>
         /\ d.fields.creator = <<"text">>
    /\ \E d \in sidecars : d.doc = "files"

\* C18: when the fetcher keeps calling the progress hook while it downloads,
\* every run of download_with_timeout whose worker was started returns a
\* capture window (as long as the clock can reach the end of the timed
\* join): after the flag is set no progress event passes the hook, the
\* worker ends, the second join returns and end_time is recorded.
C18_EventualReturn ==
    /\ (pc = "join1" /\ join_from[1] + args.duration <= MaxTime)
          ~> (Returned /\ start_time # <<>> /\ end_time # <<>>)
    /\ (pc = "join2") ~> (thread = "dead")
    /\ [][stop_flag => progress' = progress]_vars

C18_Witness ==
    /\ Returned
    /\ end_time # <<>>
    /\ stop_flag
    /\ outcome = "cancelled"
    /\ thread = "dead"
    /\ progress > 0

\* C19: without -o, only entries named temp.* that are not *.part are
\* renamed; a *.part entry is never the source of a rename, stays in the
\* directory through finalization and has no sidecar of its own; and a
\* rename happens only in the step after download_with_timeout has
\* returned, the worker thread having ended.
C19_Partial(f) ==
    Len(f) >= 2 /\ SubSeq(f, Len(f) - 1, Len(f)) = <<".", "part">>

C19_Temporary(f) == Len(f) >= 2 /\ SubSeq(f, 1, 2) = <<"temp", ".">>

C19_RenamedOnes ==
    /\ \A r \in renamed : C19_Temporary(r[1]) /\ ~C19_Partial(r[1])
    /\ renamed # {} => (pc = "done" /\ args.output = <<>> /\ thread = "dead"
                           /\ end_time # <<>> /\ calls.windows = 1)
    /\ \A s \in sidecars :
         (args.output = <<>> /\ s.doc = "files")
            => \E r \in renamed : r[2] = s.fields.name /\ ~C19_Partial(r[1])

C19_RenameStep ==
    /\ []C19_RenamedOnes
    /\ [][ /\ renamed' # renamed => (pc = "finalize" /\ thread = "dead"
                                         /\ wpc = "done")
           /\ pc = "finalize"
                => \A f \in dir : C19_Partial(f) => f \in dir' ]_vars

C19_Witness ==
    /\ pc = "done"
    /\ args.output = <<>>
    /\ renamed # {}
    /\ \E r \in renamed : r[1] = <<"temp", ".", "mp4">> /\ r[2] \in dir

\* C20: while the flag is clear a progress event changes nothing of the
\* worker's course; the worker's download ends by the cancellation fault
\* only with the flag set, which happens only after the timed join has
\* lasted max_duration and the worker was seen alive; and the orchestrator
\* is in the second join only with the flag set, having come from setting
\* it.
C20_CancelledAfterDeadline ==
    /\ [](outcome = "cancelled"
            => /\ stop_flag
               /\ flag_set_at # <<>>
               /\ flag_set_at[1] >= join_from[1] + args.duration
               /\ pc \in {"join2", "record_end", "finalize", "done"})
    /\ [](pc = "join2" => stop_flag /\ flag_set_at # <<>>)
    /\ [][(~stop_flag /\ progress' # progress)
            => (outcome' = outcome /\ wpc' = wpc /\ thread' = thread
                  /\ uncaught' = uncaught)]_vars
    /\ [][(outcome' = "cancelled" /\ outcome # "cancelled") => stop_flag]_vars
    /\ [][(pc' = "stopping" /\ pc # "stopping")
            => (pc = "check_alive" /\ thread = "alive"
                  /\ now >= join_from[1] + args.duration)]_vars
    /\ [][(pc' = "join2" /\ pc # "join2")
            => (pc = "stopping" /\ stop_flag')]_vars

C20_Witness ==
    /\ pc = "join2"
    /\ outcome = "cancelled"
    /\ thread = "alive"
    /\ wpc = "teardown"
    /\ progress > 0
====
